---- MODULE Spec2Model ----
(***************************************************************************)
(* Model of the member directory service of src/server.js: the Express     *)
(* handlers over the "members" collection (search, detail, by-email,       *)
(* by-category, statistics, analytics, profile and photo update).          *)
(*                                                                         *)
(* The store is a function from positions to member documents.  A field    *)
(* value is a tagged record: null, missing, a string (a sequence of        *)
(* one-character strings) or a number.  Every handler is one action: it    *)
(* makes at most one write (updateOne), so any interleaving of handlers    *)
(* at their awaits yields, for the store, a sequence of these actions.     *)
(***************************************************************************)
EXTENDS Integers, Sequences, FiniteSets, TLC

VARIABLES store,      \* the members collection: [1..n -> document]
          now,        \* the value new Date() returns next (a tick count)
          response,   \* the response written for the last request
          storeCalls, \* store operations issued while handling the last request
          failed,     \* TRUE iff a store operation of the last request threw
          stats,      \* the raw aggregation results held by the last handler
          request,    \* the parameters of the last request
          tieOrder    \* the order in which the store returns equal sort keys

vars == <<store, now, response, storeCalls, failed, stats, request, tieOrder>>

(***************************************************************************)
(* Bounds of the model.                                                    *)
(***************************************************************************)
MaxGroups == 12     \* documents in a store of the statistics specification
MaxMembers == 22    \* documents in a large store of the search specifications
MaxSmall == 2       \* documents in a small store of the search specifications
MaxDocs == 2        \* documents in a store of the full specification
MaxClock == 2       \* last tick of the clock
MaxPage == 2        \* largest page number requested

(***************************************************************************)
(* Field values.                                                           *)
(***************************************************************************)
Null == [t |-> "null", s |-> <<>>, n |-> 0]
Missing == [t |-> "missing", s |-> <<>>, n |-> 0]
Str(s) == [t |-> "str", s |-> s, n |-> 0]
Num(n) == [t |-> "num", s |-> <<>>, n |-> n]

IsNullish(v) == v.t \in {"null", "missing"}

\* JavaScript truthiness of a query or body parameter (!x is its negation)
Truthy(v) ==
  CASE v.t = "str" -> v.s # <<>>
    [] v.t = "num" -> v.n # 0
    [] OTHER -> FALSE

(***************************************************************************)
(* Characters and strings.                                                 *)
(***************************************************************************)
DigitChar == <<"0", "1", "2", "3", "4", "5", "6", "7", "8", "9">>

\* code unit of the characters used by the model
Code(c) ==
  CASE c = " " -> 32
    [] c = "." -> 46
    [] c = "0" -> 48 [] c = "1" -> 49 [] c = "2" -> 50 [] c = "3" -> 51
    [] c = "4" -> 52 [] c = "5" -> 53 [] c = "6" -> 54 [] c = "7" -> 55
    [] c = "8" -> 56 [] c = "9" -> 57
    [] c = "A" -> 65 [] c = "B" -> 66 [] c = "K" -> 75
    [] c = "a" -> 97 [] c = "b" -> 98 [] c = "k" -> 107

\* case folding of the "i" option
Lower(c) ==
  CASE c = "A" -> "a"
    [] c = "B" -> "b"
    [] c = "K" -> "k"
    [] OTHER -> c

RECURSIVE Digits(_)
\* Number.prototype.toString of a non-negative integer
Digits(n) == IF n < 10 THEN <<DigitChar[n + 1]>>
             ELSE Digits(n \div 10) \o <<DigitChar[(n % 10) + 1]>>

RECURSIVE SeqLess(_, _)
\* binary string comparison of the store's sort
SeqLess(a, b) ==
  IF b = <<>> THEN FALSE
  ELSE IF a = <<>> THEN TRUE
  ELSE IF Code(Head(a)) # Code(Head(b)) THEN Code(Head(a)) < Code(Head(b))
  ELSE SeqLess(Tail(a), Tail(b))

\* String.prototype.trim: strips the blanks at both ends
RECURSIVE TrimLeft(_)
TrimLeft(s) == IF s # <<>> /\ Head(s) = " " THEN TrimLeft(Tail(s)) ELSE s

RECURSIVE TrimRight(_)
TrimRight(s) ==
  IF s # <<>> /\ s[Len(s)] = " " THEN TrimRight(SubSeq(s, 1, Len(s) - 1))
  ELSE s

Trim(s) == TrimRight(TrimLeft(s))

\* the pattern character p matches the subject character c ("." is the
\* wildcard of the regular expression, the rest are literals; option "i")
CharMatches(p, c) == p = "." \/ Lower(p) = Lower(c)

\* the pattern matches the subject at offset k (0-based)
MatchesAt(pat, subj, k) ==
  /\ k + Len(pat) <= Len(subj)
  /\ \A j \in 1..Len(pat) : CharMatches(pat[j], subj[k + j])

\* { field: { $regex: pat, $options: "i" } }: unanchored, strings only
RegexMatch(pat, v) ==
  /\ v.t = "str"
  /\ \E k \in 0..Len(v.s) : MatchesAt(pat, v.s, k)

(***************************************************************************)
(* Order of the store's $sort: null and missing, then numbers, then        *)
(* strings.                                                                *)
(***************************************************************************)
TypeRank(v) ==
  CASE v.t = "num" -> 2
    [] v.t = "str" -> 3
    [] OTHER -> 1

ValLess(a, b) ==
  IF TypeRank(a) # TypeRank(b) THEN TypeRank(a) < TypeRank(b)
  ELSE CASE a.t = "num" -> a.n < b.n
         [] a.t = "str" -> SeqLess(a.s, b.s)
         [] OTHER -> FALSE

(***************************************************************************)
(* Aggregation pipelines of /analytics and /stats/*.                       *)
(***************************************************************************)
Ids(st) == DOMAIN st

\* { F: { $ne: null, $ne: "" } }: an object literal keeps the last of two
\* equal keys, so the stage the store receives is { F: { $ne: "" } }
MatchStage(st, F) == {i \in Ids(st) : st[i][F] # Str(<<>>)}

\* _id: "$F" : a missing field groups under null
GroupKey(v) == IF IsNullish(v) THEN Null ELSE v

\* $group with count: { $sum: 1 }
GroupStage(st, F, matched) ==
  {[_id |-> k, count |-> Cardinality({i \in matched : GroupKey(st[i][F]) = k})] :
     k \in {GroupKey(st[i][F]) : i \in matched}}

\* the store leaves the order of equal sort keys open; tb is one of two
TieLess(a, b, tb) == IF tb = "asc" THEN ValLess(a, b) ELSE ValLess(b, a)

CountDescLess(a, b, tb) ==
  \/ a.count > b.count
  \/ a.count = b.count /\ TieLess(a._id, b._id, tb)

\* the sequence that puts each element of S at the position after the
\* before[x] elements that precede it
Arrange(S, before) == [r \in 1..Cardinality(S) |-> CHOOSE x \in S : before[x] = r - 1]

\* the one element of a singleton set
The(S) == CHOOSE x \in S : TRUE

SortCountAsc(groups, tb) ==
  The({Arrange(groups, before) :
         before \in {[x \in groups |->
                        Cardinality({y \in groups : CountDescLess(x, y, tb)})]}})

\* { $sort: { count: -1 } }: each group stands after the groups that
\* precede it in the order
SortCountDesc(groups, tb) ==
  The({Arrange(groups, before) :
         before \in {[x \in groups |->
                        Cardinality({y \in groups : CountDescLess(y, x, tb)})]}})

\* { $sort: { _id: 1 } }
SortIdAsc(groups) ==
  The({Arrange(groups, before) :
         before \in {[x \in groups |->
                        Cardinality({y \in groups : ValLess(y._id, x._id)})]}})

TopLimit == 10

LimitStageOff(rows, k) == rows

\* { $limit: k }
LimitStage(rows, k) == SubSeq(rows, 1, IF Len(rows) < k THEN Len(rows) ELSE k)

\* the pipelines of /stats/native-village, /stats/city, /stats/kovil
CountPipeline(st, F, tb) == SortCountDesc(GroupStage(st, F, MatchStage(st, F)), tb)

\* the pipelines of /analytics for village, city and temple
TopPipeline(st, F, tb) == LimitStage(CountPipeline(st, F, tb), TopLimit)

\* the pipeline of /stats/year and of /analytics for the year moved
YearPipeline(st) == SortIdAsc(GroupStage(st, "YearSince", MatchStage(st, "YearSince")))

(***************************************************************************)
(* Member documents.                                                       *)
(***************************************************************************)
Oid(k) == [t |-> "oid", s |-> <<>>, n |-> k]
Date(k) == [t |-> "date", s |-> <<>>, n |-> k]

NameFields == {"First name", "Last name", "Spouse first name", "Spouse last name"}
SearchFields == NameFields \cup {"City", "Chettinad native place"}
CategoryFields == {"Chettinad native place", "City", "Kovil", "YearSince"}
Fields == {"_id", "Email", "Spouse email id", "Mobile number",
           "Spouse mobile number", "photo_link", "UserUpdated"}
          \cup SearchFields \cup CategoryFields

\* a document with the given identifier and all other fields absent
BlankDoc(k) == [f \in Fields |-> IF f = "_id" THEN Oid(k) ELSE Missing]

\* d with the fields of the function upd replaced
WithFields(d, upd) == [f \in Fields |-> IF f \in DOMAIN upd THEN upd[f] ELSE d[f]]

\* the key of the i-th distinct group of a generated store
Name(i) == <<"k">> \o Digits(i)

(***************************************************************************)
(* Stores of the statistics specification: n documents whose four          *)
(* grouped fields follow one pattern each.                                  *)
(***************************************************************************)
Pat(p, i, n) ==
  CASE p = "distinct" -> Str(Name(i))
    [] p = "dup" -> Str(Name(IF i = n /\ n > 1 THEN 1 ELSE i))
    [] p = "few" -> Str(Name(IF i % 3 = 0 THEN 0 ELSE i % 2))
    [] p = "sparse" -> CASE i % 4 = 1 -> Str(Name(i % 3))
                         [] i % 4 = 2 -> Null
                         [] i % 4 = 3 -> Str(<<>>)
                         [] OTHER -> Missing
    [] p = "blank" -> IF i % 2 = 0 THEN Str(<<>>) ELSE Str(Name(1))
    [] p = "nums" -> Num(7 + (i % 5))
    [] p = "years" -> Str(Digits(8 + (i % 4)))
    [] p = "mixed" -> IF i % 2 = 0 THEN Num(i) ELSE Str(Digits(i))

Shapes ==
  { <<"distinct", "dup", "few", "nums">>,
    <<"dup", "few", "distinct", "years">>,
    <<"few", "distinct", "dup", "mixed">>,
    <<"sparse", "dup", "blank", "distinct">>,
    <<"blank", "sparse", "distinct", "years">>,
    <<"dup", "blank", "sparse", "sparse">> }

AggDoc(i, n, sh) ==
  WithFields(BlankDoc(i),
             [f \in CategoryFields |->
                CASE f = "Chettinad native place" -> Pat(sh[1], i, n)
                  [] f = "City" -> Pat(sh[2], i, n)
                  [] f = "Kovil" -> Pat(sh[3], i, n)
                  [] f = "YearSince" -> Pat(sh[4], i, n)])

AggStore(n, sh) == [i \in 1..n |-> AggDoc(i, n, sh)]

(***************************************************************************)
(* Responses.                                                              *)
(***************************************************************************)
NoStats == [nativeVillage |-> <<>>, cityResidence |-> <<>>,
            nagaraKovil |-> <<>>, yearMoved |-> <<>>]

\* res.status(status).json({ message }), the other parts of the body empty
Reply(ep, status, message) ==
  [ep |-> ep, status |-> status, message |-> message, leak |-> FALSE,
   isWhitelisted |-> FALSE, members |-> <<>>, member |-> <<>>,
   rows |-> <<>>, analytics |-> NoStats]

NoResponse == Reply("none", 0, "")

(***************************************************************************)
(* Requests: req.params, req.query and req.body of the last request.       *)
(***************************************************************************)
EmptyBody == [f \in {} |-> Missing]

\* an :id parameter: 24 hexadecimal digits that denote the identifier n,
\* or some other string
HexId(n) == [hex |-> TRUE, n |-> n]
BadId == [hex |-> FALSE, n |-> 0]

Req(ep) ==
  [ep |-> ep, id |-> BadId, search |-> Missing, page |-> Missing, limit |-> Missing,
   category |-> "", value |-> Missing, email |-> Missing, body |-> EmptyBody,
   recipients |-> Missing]

NoRequest == Req("none")

\* A rejected promise of an async handler without try/catch.  What the
\* client sees depends on the framework the build installs: Express 4
\* never answers, Express 5 runs its default error handler, which writes
\* the stack of the error unless NODE_ENV is "production".
Unhandled(ep) ==
  { Reply(ep, 0, ""),
    [Reply(ep, 500, "stack") EXCEPT !.leak = TRUE],
    Reply(ep, 500, "Internal Server Error") }

\* item._id.toString() of /analytics; undefined when item._id is null
IdToString(v) ==
  CASE v.t = "str" -> v.s
    [] v.t = "num" -> Digits(v.n)

\* .map((item) => ({ name: item._id, count: item.count }))
Reshape(rows) ==
  [j \in 1..Len(rows) |-> [name |-> rows[j]._id, count |-> rows[j].count]]

\* .map((item) => ({ name: item._id.toString(), count: item.count }))
ReshapeYear(rows) ==
  [j \in 1..Len(rows) |-> [name |-> Str(IdToString(rows[j]._id)), count |-> rows[j].count]]

\* item._id.toString() throws a TypeError for the group of null
YearThrows(rows) == \E j \in 1..Len(rows) : IsNullish(rows[j]._id)

(***************************************************************************)
(* GET /analytics.  failAt names the aggregate call that throws, 0 none.   *)
(***************************************************************************)
Analytics ==
  \E failAt \in 0..4 :
    LET nv == TopPipeline(store, "Chettinad native place", tieOrder)
        cr == TopPipeline(store, "City", tieOrder)
        nk == TopPipeline(store, "Kovil", tieOrder)
        ym == YearPipeline(store)
        held == [nativeVillage |-> IF failAt \in {0, 2, 3, 4} THEN nv ELSE <<>>,
                 cityResidence |-> IF failAt \in {0, 3, 4} THEN cr ELSE <<>>,
                 nagaraKovil |-> IF failAt \in {0, 4} THEN nk ELSE <<>>,
                 yearMoved |-> IF failAt = 0 THEN ym ELSE <<>>]
    IN /\ request' = Req("analytics")
       /\ storeCalls' = IF failAt = 0 THEN 4 ELSE failAt
       /\ failed' = (failAt # 0)
       /\ stats' = held
       /\ response' =
            IF failAt # 0 \/ YearThrows(ym)
            THEN Reply("analytics", 500, "Internal server error")
            ELSE [Reply("analytics", 200, "") EXCEPT
                    !.analytics = [nativeVillage |-> Reshape(nv),
                                   cityResidence |-> Reshape(cr),
                                   nagaraKovil |-> Reshape(nk),
                                   yearMoved |-> ReshapeYear(ym)]]
       /\ UNCHANGED <<store, now, tieOrder>>

(***************************************************************************)
(* GET /stats/native-village, /stats/city, /stats/kovil, /stats/year: no   *)
(* try/catch around the aggregate call.                                    *)
(***************************************************************************)
StatsHandler(ep, slot, rows, fail) ==
  /\ request' = Req(ep)
  /\ storeCalls' = 1
  /\ failed' = fail
  /\ stats' = IF fail THEN NoStats ELSE [NoStats EXCEPT ![slot] = rows]
  /\ IF fail
     THEN response' \in Unhandled(ep)
     ELSE response' = [Reply(ep, 200, "") EXCEPT !.rows = rows]
  /\ UNCHANGED <<store, now, tieOrder>>

StatsNativeVillage ==
  \E fail \in BOOLEAN :
    StatsHandler("stats/native-village", "nativeVillage",
                 CountPipeline(store, "Chettinad native place", tieOrder), fail)

StatsCity ==
  \E fail \in BOOLEAN :
    StatsHandler("stats/city", "cityResidence", CountPipeline(store, "City", tieOrder), fail)

StatsKovil ==
  \E fail \in BOOLEAN :
    StatsHandler("stats/kovil", "nagaraKovil", CountPipeline(store, "Kovil", tieOrder), fail)

StatsYear ==
  \E fail \in BOOLEAN :
    StatsHandler("stats/year", "yearMoved", YearPipeline(store), fail)

(***************************************************************************)
(* Statistics specification: a generated store and the five statistics     *)
(* handlers.                                                               *)
(***************************************************************************)
InitIdle ==
  /\ now = 0
  /\ response = NoResponse
  /\ storeCalls = 0
  /\ failed = FALSE
  /\ stats = NoStats
  /\ request = NoRequest

InitAgg ==
  /\ \E n \in 0..MaxGroups, sh \in Shapes : store = AggStore(n, sh)
  /\ tieOrder \in {"asc", "desc"}
  /\ InitIdle

NextAgg ==
  \/ Analytics
  \/ StatsNativeVillage
  \/ StatsCity
  \/ StatsKovil
  \/ StatsYear

SpecAgg == InitAgg /\ [][NextAgg]_vars

(***************************************************************************)
(* Properties of the statistics handlers.                                  *)
(***************************************************************************)
\* the field value is present and non-empty
Present(v) == ~IsNullish(v) /\ v # Str(<<>>)

PresentDocs(F) == {i \in Ids(store) : Present(store[i][F])}

PresentValues(F) == {store[i][F] : i \in PresentDocs(F)}

CountOf(F, v) == Cardinality({i \in Ids(store) : store[i][F] = v})

RECURSIVE SumCounts(_)
SumCounts(rows) == IF rows = <<>> THEN 0 ELSE Head(rows).count + SumCounts(Tail(rows))

Answered(ep) == response.ep = ep /\ response.status = 200

StatsEndpoints ==
  { <<"stats/native-village", "Chettinad native place">>,
    <<"stats/city", "City">>,
    <<"stats/kovil", "Kovil">>,
    <<"stats/year", "YearSince">> }

TruncatedSlots ==
  { <<"nativeVillage", "Chettinad native place">>,
    <<"cityResidence", "City">>,
    <<"nagaraKovil", "Kovil">> }

\* C1: in the single-field statistics and in /analytics no group stands for
\* a null, missing or empty field, and (where nothing is truncated) the
\* counts add up to the number of documents whose field is present and
\* non-empty.
C1_EmptyExcluded ==
  /\ \A e \in StatsEndpoints :
       Answered(e[1]) =>
         /\ \A j \in 1..Len(response.rows) : Present(response.rows[j]._id)
         /\ SumCounts(response.rows) = Cardinality(PresentDocs(e[2]))
  /\ Answered("analytics") =>
       /\ \A j \in 1..Len(response.analytics.yearMoved) :
            Present(response.analytics.yearMoved[j].name)
       /\ SumCounts(response.analytics.yearMoved) = Cardinality(PresentDocs("YearSince"))
       /\ \A e \in TruncatedSlots :
            /\ \A j \in 1..Len(response.analytics[e[1]]) :
                 Present(response.analytics[e[1]][j].name)
            /\ Len(response.analytics[e[1]]) < TopLimit =>
                 SumCounts(response.analytics[e[1]]) = Cardinality(PresentDocs(e[2]))

\* C6: /analytics returns at most 10 groups for village, city and temple,
\* each counting at least as many documents as any value it leaves out;
\* its year-moved list and the single-field statistics carry exactly one
\* entry for every present value.
C6_TopTen ==
  /\ Answered("analytics") =>
       /\ \A e \in TruncatedSlots :
            LET out == response.analytics[e[1]]
                names == {out[j].name : j \in 1..Len(out)}
            IN /\ Len(out) <= TopLimit
               /\ Cardinality(PresentValues(e[2])) > TopLimit => Len(out) = TopLimit
               /\ \A j \in 1..Len(out) :
                    \A v \in PresentValues(e[2]) \ names : out[j].count >= CountOf(e[2], v)
       /\ Len(response.analytics.yearMoved) = Cardinality(PresentValues("YearSince"))
       /\ \A v \in PresentValues("YearSince") :
            Cardinality({j \in 1..Len(stats.yearMoved) : stats.yearMoved[j]._id = v}) = 1
  /\ \A e \in StatsEndpoints :
       Answered(e[1]) =>
         \A v \in PresentValues(e[2]) :
           Cardinality({j \in 1..Len(response.rows) : response.rows[j]._id = v}) = 1

C6_Witness ==
  /\ Answered("analytics")
  /\ Cardinality(PresentValues("Chettinad native place")) > TopLimit
  /\ Len(response.analytics.nativeVillage) = TopLimit
  /\ response.analytics.nativeVillage[1].count = 2
  /\ \E v \in PresentValues("Chettinad native place") :
       \A j \in 1..TopLimit : response.analytics.nativeVillage[j].name # v

AscendingIds(rows) ==
  \A j \in 1..(Len(rows) - 1) : ValLess(rows[j]._id, rows[j + 1]._id)

NonIncreasingCounts(rows) ==
  \A j \in 1..(Len(rows) - 1) : rows[j].count >= rows[j + 1].count

\* C7: the year-moved groups of /stats/year and /analytics ascend by group
\* key; the village, city and temple groups of the single-field statistics
\* and of /analytics never increase in count.
C7_Ordering ==
  /\ Answered("stats/year") => AscendingIds(response.rows)
  /\ Answered("analytics") =>
       /\ AscendingIds(stats.yearMoved)
       /\ response.analytics.yearMoved = ReshapeYear(stats.yearMoved)
       /\ \A e \in TruncatedSlots : NonIncreasingCounts(response.analytics[e[1]])
  /\ \A e \in StatsEndpoints \ {<<"stats/year", "YearSince">>} :
       Answered(e[1]) => NonIncreasingCounts(response.rows)

C7_Witness ==
  /\ Answered("analytics")
  /\ Len(response.analytics.yearMoved) >= 3
  /\ Len(response.analytics.cityResidence) >= 3
  /\ response.analytics.cityResidence[1].count > response.analytics.cityResidence[3].count

(***************************************************************************)
(* Query parameters.                                                       *)
(***************************************************************************)
\* const { x = d } = req.query: the default replaces an absent parameter
Default(v, d) == IF v.t = "missing" THEN d ELSE v

RECURSIVE ParseDigits(_)
ParseDigits(s) ==
  IF s = <<>> THEN 0
  ELSE 10 * ParseDigits(SubSeq(s, 1, Len(s) - 1)) + (Code(s[Len(s)]) - 48)

\* Number(x) of a decimal query string or of a numeric default
NumberOf(v) == IF v.t = "num" THEN v.n ELSE ParseDigits(v.s)

DefaultPage == 1
DefaultLimit == 20

(***************************************************************************)
(* Projections and the sorted cursor of find().                            *)
(***************************************************************************)
ListView == {"_id"} \cup SearchFields

CategoryView == ListView \cup {"Kovil", "YearSince", "Email", "Spouse email id",
                               "Mobile number", "Spouse mobile number"}

\* .project({ f: 1, ... })
Project(d, view) == [f \in Fields |-> IF f \in view THEN d[f] ELSE Missing]

\* order of .sort({ "First name": 1 }); documents with equal keys come in
\* an order the store chooses, tb is one of two
FirstNameLess(st, a, b, tb) ==
  \/ ValLess(st[a]["First name"], st[b]["First name"])
  \/ /\ ~ValLess(st[b]["First name"], st[a]["First name"])
     /\ IF tb = "asc" THEN a < b ELSE a > b

SortFirstName(st, matched, tb) ==
  The({Arrange(matched, before) :
         before \in {[x \in matched |->
                        Cardinality({y \in matched : FirstNameLess(st, y, x, tb)})]}})

SkipNext(page, limit) == page * limit

\* const skip = (Number(page) - 1) * Number(limit)
Skip(page, limit) == (page - 1) * limit

\* .skip(skip).limit(limit) of a cursor; limit 0 means no limit
PageOf(full, skip, limit) ==
  LET last == IF limit = 0 \/ skip + limit > Len(full) THEN Len(full) ELSE skip + limit
  IN SubSeq(full, skip + 1, last)

\* the documents at the positions of order, projected
Listing(st, order, view) == [j \in 1..Len(order) |-> Project(st[order[j]], view)]

(***************************************************************************)
(* GET /members: no try/catch around the query.                            *)
(***************************************************************************)
SearchInputs == {Missing, Str(<<>>), Str(<<"K">>), Str(<<".">>)}

PageInputs == {Missing} \cup {Str(Digits(p)) : p \in 0..MaxPage}

LimitInputs == {Missing} \cup {Str(Digits(l)) : l \in {1, 2, DefaultLimit}}

\* the $or of six $regex conditions
FreeTextMatch(d, pat) == \E f \in SearchFields : RegexMatch(pat, d[f])

MembersOn(searches, pages, limits) ==
  \E search \in searches, page \in pages, limit \in limits, fail \in BOOLEAN :
    LET pat == Default(search, Str(<<>>)).s
        p == NumberOf(Default(page, Num(DefaultPage)))
        l == NumberOf(Default(limit, Num(DefaultLimit)))
        skip == Skip(p, l)
        \* the store rejects a negative skip
        throws == fail \/ skip < 0
        matched == {i \in Ids(store) : FreeTextMatch(store[i], pat)}
    IN /\ request' = [Req("members") EXCEPT !.search = search, !.page = page,
                                             !.limit = limit]
       /\ storeCalls' = 1
       /\ failed' = throws
       /\ IF throws
          THEN response' \in Unhandled("members")
          ELSE response' =
                 [Reply("members", 200, "") EXCEPT
                    !.members = Listing(store,
                                        PageOf(SortFirstName(store, matched, tieOrder), skip, l),
                                        ListView)]
       /\ UNCHANGED <<store, now, stats, tieOrder>>

Members == MembersOn(SearchInputs, PageInputs, LimitInputs)

(***************************************************************************)
(* GET /members/by-category.                                               *)
(***************************************************************************)
Categories == {"nativeVillage", "cityResidence", "nagaraKovil", "yearMoved"}

CategoryInputs == Categories \cup {"", "foo"}

ValueInputs == {Missing, Str(<<>>), Str(<<"k", "a">>), Str(<<"k">>), Str(<<"8">>)}

TermInputs == {Missing, Str(<<"a">>), Str(<<" ">>), Str(<<".">>), Str(<<"a", " ">>)}

CategoryFieldSwapped(category) ==
  CASE category = "nativeVillage" -> "City"
    [] category = "cityResidence" -> "Chettinad native place"
    [] category = "nagaraKovil" -> "Kovil"
    [] category = "yearMoved" -> "YearSince"

\* switch (category)
CategoryField(category) ==
  CASE category = "nativeVillage" -> "Chettinad native place"
    [] category = "cityResidence" -> "City"
    [] category = "nagaraKovil" -> "Kovil"
    [] category = "yearMoved" -> "YearSince"

\* the $or of four $regex conditions on the name fields
NameMatch(d, pat) == \E f \in NameFields : RegexMatch(pat, d[f])

\* search && search.trim() !== ""
HasSearch(term) == term # <<>> /\ Trim(term) # <<>>

\* the composed query of /members/by-category
CategoryQuery(d, category, value, term) ==
  /\ d[CategoryField(category)] = value
  /\ HasSearch(term) => (d[CategoryField(category)] = value /\ NameMatch(d, term))

ByCategoryOn(categories, values, searches) ==
  \E category \in categories, value \in values, search \in searches, fail \in BOOLEAN :
    LET term == Default(search, Str(<<>>)).s
        matched == {i \in Ids(store) : CategoryQuery(store[i], category, value, term)}
    IN /\ request' = [Req("members/by-category") EXCEPT
                        !.category = category, !.value = value, !.search = search]
       /\ UNCHANGED <<store, now, stats, tieOrder>>
       /\ IF category = "" \/ ~Truthy(value)
          THEN /\ response' = Reply("members/by-category", 400,
                                    "Category and value are required parameters")
               /\ storeCalls' = 0
               /\ failed' = FALSE
          ELSE IF category \notin Categories
          THEN /\ response' = Reply("members/by-category", 400, "Invalid category")
               /\ storeCalls' = 0
               /\ failed' = FALSE
          ELSE IF fail
          THEN /\ response' = Reply("members/by-category", 500, "Internal server error")
               /\ storeCalls' = 1
               /\ failed' = TRUE
          ELSE /\ response' =
                    [Reply("members/by-category", 200, "") EXCEPT
                       !.members = Listing(store, SortFirstName(store, matched, tieOrder),
                                           CategoryView)]
               /\ storeCalls' = 1
               /\ failed' = FALSE

(***************************************************************************)
(* Stores of the search specification: the first documents run through     *)
(* the templates from an offset, the rest alternate two of them.           *)
(***************************************************************************)
Template(k) ==
  CASE k = 1 -> [f \in SearchFields \cup CategoryFields |->
                   CASE f = "First name" -> Str(<<"a", "b">>)
                     [] f = "Last name" -> Str(<<"K">>)
                     [] f = "Spouse first name" -> Missing
                     [] f = "Spouse last name" -> Null
                     [] f = "City" -> Str(<<"k", "a">>)
                     [] f = "Chettinad native place" -> Str(<<"k", "1">>)
                     [] f = "Kovil" -> Str(<<"k">>)
                     [] f = "YearSince" -> Str(<<"8">>)]
    [] k = 2 -> [f \in SearchFields \cup CategoryFields |->
                   CASE f = "First name" -> Str(<<"B">>)
                     [] f = "Last name" -> Str(<<>>)
                     [] f = "Spouse first name" -> Str(<<"a", " ", "b">>)
                     [] f = "Spouse last name" -> Str(<<"k">>)
                     [] f = "City" -> Str(<<"k", "a">>)
                     [] f = "Chettinad native place" -> Str(<<"k", "a">>)
                     [] f = "Kovil" -> Str(<<"k">>)
                     [] f = "YearSince" -> Num(8)]
    [] k = 3 -> [f \in SearchFields \cup CategoryFields |->
                   CASE f \in {"First name", "Spouse last name", "City"} -> Null
                     [] f = "Kovil" -> Str(<<"k">>)
                     [] f = "YearSince" -> Str(<<"8">>)
                     [] OTHER -> Missing]
    [] k = 4 -> [f \in SearchFields \cup CategoryFields |->
                   CASE f \in {"Kovil", "YearSince"} -> Null
                     [] OTHER -> Str(<<>>)]
    [] k = 5 -> [f \in SearchFields \cup CategoryFields |->
                   CASE f = "First name" -> Str(<<"k", ".">>)
                     [] f = "Last name" -> Str(<<"b">>)
                     [] f = "Spouse first name" -> Str(<<"A">>)
                     [] f = "Spouse last name" -> Missing
                     [] f = "City" -> Str(<<"K", "a">>)
                     [] f = "Chettinad native place" -> Str(<<"k", "1">>)
                     [] f = "Kovil" -> Str(<<"K">>)
                     [] f = "YearSince" -> Str(<<"9">>)]
    [] k = 6 -> [f \in SearchFields \cup CategoryFields |->
                   CASE f = "City" -> Str(<<"k", "a">>)
                     [] f = "Chettinad native place" -> Str(<<"a", "b">>)
                     [] f = "Kovil" -> Str(<<"k">>)
                     [] f = "YearSince" -> Str(<<"8">>)
                     [] OTHER -> Missing]

TemplateIds == 1..6

Templates == Cardinality(TemplateIds)

SearchDoc(i, off) ==
  WithFields(BlankDoc(i),
             Template(IF i <= Templates THEN ((i - 1 + off) % Templates) + 1
                      ELSE IF i % 2 = 0 THEN 1 ELSE 5))

SearchStore(n, off) == [i \in 1..n |-> SearchDoc(i, off)]

ByCategory == ByCategoryOn(CategoryInputs, ValueInputs, TermInputs)

(***************************************************************************)
(* Search specification: GET /members over small and large stores.         *)
(***************************************************************************)
InitMembers ==
  /\ \/ \E n \in 0..MaxSmall, off \in 0..(Templates - 1) : store = SearchStore(n, off)
     \/ store = SearchStore(MaxMembers, 0)
  /\ tieOrder \in {"asc", "desc"}
  /\ InitIdle

NextMembers == Members

SpecMembers == InitMembers /\ [][NextMembers]_vars

(***************************************************************************)
(* Category specification: GET /members/by-category over small stores.     *)
(***************************************************************************)
InitCategory ==
  /\ \E n \in 0..MaxSmall, off \in 0..(Templates - 1) : store = SearchStore(n, off)
  /\ tieOrder \in {"asc", "desc"}
  /\ InitIdle

NextCategory == ByCategory

SpecCategory == InitCategory /\ [][NextCategory]_vars

(***************************************************************************)
(* Properties of the search handlers.                                      *)
(***************************************************************************)
\* the identifiers of a listing
ListedIds(members) == {members[j]["_id"].n : j \in 1..Len(members)}

\* the search term of the last request, "" when omitted
Term == IF request.search.t = "missing" THEN <<>> ELSE request.search.s

\* the page and the limit of the last request with their defaults
Page == IF request.page.t = "missing" THEN 1 ELSE ParseDigits(request.page.s)

Limit == IF request.limit.t = "missing" THEN 20 ELSE ParseDigits(request.limit.s)

\* v is a string that contains term, letter case ignored
Contains(term, v) ==
  /\ v.t = "str"
  /\ \E k \in 0..(Len(v.s) - Len(term)) :
       \A j \in 1..Len(term) : Lower(term[j]) = Lower(v.s[k + j])

Blank(term) == \A j \in 1..Len(term) : term[j] = " "

Literal(term) == \A j \in 1..Len(term) : term[j] # "."

FieldOfCategory ==
  [c \in Categories |->
     CASE c = "nativeVillage" -> "Chettinad native place"
       [] c = "cityResidence" -> "City"
       [] c = "nagaraKovil" -> "Kovil"
       [] c = "yearMoved" -> "YearSince"]

\* the documents whose category field equals the requested value
InCategory == {i \in Ids(store) : store[i][FieldOfCategory[request.category]] = request.value}

\* C2 as stated: /members/by-category returns exactly the documents whose
\* category field equals the value and, for a non-empty search term, one of
\* whose four name fields contains the term as a substring, case ignored.
C2_SubstringFilter ==
  Answered("members/by-category") =>
    ListedIds(response.members) =
      {i \in InCategory :
         Term # <<>> => \E f \in NameFields : Contains(Term, store[i][f])}

\* C2 amended: the name filter applies only to a term with a non-blank
\* character and tests the term as a case-insensitive regular expression,
\* which is the substring test for a term without metacharacters; a blank
\* or empty term leaves the category equality alone; city and native
\* village take no part in the text match.
C2_RegexFilter ==
  Answered("members/by-category") =>
    /\ Len(response.members) = Cardinality(ListedIds(response.members))
    /\ Blank(Term) => ListedIds(response.members) = InCategory
    /\ ~Blank(Term) =>
         ListedIds(response.members) =
           {i \in InCategory : \E f \in NameFields : RegexMatch(Term, store[i][f])}
    /\ ~Blank(Term) /\ Literal(Term) =>
         ListedIds(response.members) =
           {i \in InCategory : \E f \in NameFields : Contains(Term, store[i][f])}

C2_Witness ==
  /\ Answered("members/by-category")
  /\ request.category = "cityResidence"
  /\ Term = <<"a">>
  /\ ListedIds(response.members) # {}
  /\ \E i \in InCategory \ ListedIds(response.members) :
       Contains(Term, store[i]["Chettinad native place"])

\* C3: GET /members with an empty or omitted search term selects every
\* document of the store, so a first page at least as long as the store
\* lists them all.
C3_EmptySearchSelectsAll ==
  (Answered("members") /\ Term = <<>> /\ Page = 1 /\ Limit >= Cardinality(Ids(store)))
    => ListedIds(response.members) = Ids(store)

\* the whole matching result of the last search in the order of the store
FullResult ==
  Listing(store,
          SortFirstName(store, {i \in Ids(store) : FreeTextMatch(store[i], Term)}, tieOrder),
          ListView)

\* C8: for page >= 1 and limit >= 1 GET /members returns the elements
\* (page-1)*limit+1 .. page*limit of the full matching result ordered by
\* first name ascending, so never more than limit elements.
C8_PageSlice ==
  (Answered("members") /\ Page >= 1 /\ Limit >= 1) =>
    LET full == FullResult
        from == (Page - 1) * Limit
        rest == IF Len(full) > from THEN Len(full) - from ELSE 0
        size == IF rest < Limit THEN rest ELSE Limit
    IN /\ Len(response.members) = size
       /\ Len(response.members) <= Limit
       /\ \A j \in 1..size : response.members[j] = full[from + j]
       /\ \A j \in 1..(Len(full) - 1) :
            ~ValLess(full[j + 1]["First name"], full[j]["First name"])

C8_Witness ==
  /\ Answered("members")
  /\ request.page = Str(<<"2">>)
  /\ request.limit = Str(<<"2", "0">>)
  /\ Len(FullResult) > 20
  /\ Len(response.members) >= 1
  /\ response.members[1] = FullResult[21]

(***************************************************************************)
(* Store operations by identifier.                                         *)
(***************************************************************************)
\* ObjectId.isValid(id)
ObjectIdIsValid(id) == id.hex

\* new ObjectId(id), which throws unless the string is well formed
NewObjectId(id) == Oid(id.n)

Matching(st, oid) == {i \in Ids(st) : st[i]["_id"] = oid}

\* findOne({ _id: oid }): the document in a sequence, empty when none
FindById(st, oid) ==
  IF Matching(st, oid) = {} THEN <<>>
  ELSE <<st[CHOOSE i \in Matching(st, oid) : \A j \in Matching(st, oid) : i <= j]>>

\* findOne({ $or: [{ "Spouse email id": email }, { Email: email }] })
FindByEmail(st, email) ==
  LET hits == {i \in Ids(st) : st[i]["Spouse email id"] = email \/ st[i]["Email"] = email}
  IN IF hits = {} THEN <<>> ELSE <<st[CHOOSE i \in hits : \A j \in hits : i <= j]>>

MatchedCountOne(st, oid) == 1

\* result.matchedCount of updateOne
MatchedCount(st, oid) == IF Matching(st, oid) = {} THEN 0 ELSE 1

UpdateOneUpsert(st, oid, fields) ==
  IF Matching(st, oid) = {}
  THEN Append(st, WithFields(BlankDoc(oid.n), fields))
  ELSE LET i == CHOOSE x \in Matching(st, oid) : \A j \in Matching(st, oid) : x <= j
       IN [st EXCEPT ![i] = WithFields(@, fields)]

\* updateOne({ _id: oid }, { $set: fields }): no upsert
UpdateOne(st, oid, fields) ==
  IF Matching(st, oid) = {} THEN st
  ELSE LET i == CHOOSE x \in Matching(st, oid) : \A j \in Matching(st, oid) : x <= j
       IN [st EXCEPT ![i] = WithFields(@, fields)]

\* const { _id, ...fieldsToUpdate } = updateData;
\* fieldsToUpdate.UserUpdated = new Date()
FieldsToUpdate(body, t) ==
  [f \in (DOMAIN body \ {"_id"}) \cup {"UserUpdated"} |->
     IF f = "UserUpdated" THEN Date(t) ELSE body[f]]

\* { photo_link, UserUpdated: new Date() }
PhotoFields(link, t) ==
  [f \in {"photo_link", "UserUpdated"} |-> IF f = "UserUpdated" THEN Date(t) ELSE link]

\* the :id parameters of the requests: a malformed one, the identifier of
\* the first document and one that no document carries
IdInputs == {BadId, HexId(1), HexId(MaxDocs + 1)}

(***************************************************************************)
(* PUT /members/:id and PUT /members/:id/photo.  failAt names the store    *)
(* call that throws: 1 the updateOne, 2 the findOne that reads back.       *)
(***************************************************************************)
UpdateHandler(ep, id, fields, failAt, done) ==
  IF ~ObjectIdIsValid(id)
  THEN \* new ObjectId(id) throws inside the try block
       /\ response' = Reply(ep, 500, "Internal server error")
       /\ storeCalls' = 0
       /\ failed' = FALSE
       /\ UNCHANGED <<store, now>>
  ELSE IF failAt = 1
  THEN /\ response' = Reply(ep, 500, "Internal server error")
       /\ storeCalls' = 1
       /\ failed' = TRUE
       /\ UNCHANGED <<store, now>>
  ELSE /\ store' = UpdateOne(store, NewObjectId(id), fields)
       /\ now' = IF MatchedCount(store, NewObjectId(id)) = 0 THEN now ELSE now + 1
       /\ IF MatchedCount(store, NewObjectId(id)) = 0
          THEN /\ response' = Reply(ep, 404, "Member not found")
               /\ storeCalls' = 1
               /\ failed' = FALSE
          ELSE IF failAt = 2
          THEN /\ response' = Reply(ep, 500, "Internal server error")
               /\ storeCalls' = 2
               /\ failed' = TRUE
          ELSE /\ response' = [Reply(ep, 200, done) EXCEPT
                                 !.member = FindById(store', NewObjectId(id))]
               /\ storeCalls' = 2
               /\ failed' = FALSE

ProfileBodies ==
  { [f \in {"City"} |-> Str(<<"k">>)],
    [f \in {"_id", "YearSince"} |-> IF f = "_id" THEN Oid(MaxDocs + 2) ELSE Null] }

PutMember ==
  \E id \in IdInputs, body \in ProfileBodies, failAt \in 0..2 :
    /\ now < MaxClock
    /\ request' = [Req("PUT members") EXCEPT !.id = id, !.body = body]
    /\ UpdateHandler("PUT members", id, FieldsToUpdate(body, now), failAt,
                     "Profile updated successfully")
    /\ UNCHANGED <<stats, tieOrder>>

PhotoBodies ==
  { EmptyBody,
    [f \in {"photo_link"} |-> Str(<<>>)],
    [f \in {"photo_link"} |-> Str(<<"k">>)] }

\* const { photo_link } = req.body
PhotoLink(body) == IF "photo_link" \in DOMAIN body THEN body["photo_link"] ELSE Missing

PutPhoto ==
  \E id \in IdInputs, body \in PhotoBodies, failAt \in 0..2 :
    /\ now < MaxClock
    /\ request' = [Req("PUT members/photo") EXCEPT !.id = id, !.body = body]
    /\ UNCHANGED <<stats, tieOrder>>
    /\ IF ~Truthy(PhotoLink(body))
       THEN /\ response' = Reply("PUT members/photo", 400, "photo_link is required")
            /\ storeCalls' = 0
            /\ failed' = FALSE
            /\ UNCHANGED <<store, now>>
       ELSE UpdateHandler("PUT members/photo", id, PhotoFields(PhotoLink(body), now),
                          failAt, "Photo updated successfully")

(***************************************************************************)
(* GET /members/get/:id.                                                   *)
(***************************************************************************)
GetMember ==
  \E id \in IdInputs, fail \in BOOLEAN :
    /\ request' = [Req("members/get") EXCEPT !.id = id]
    /\ UNCHANGED <<store, now, stats, tieOrder>>
    /\ IF ~ObjectIdIsValid(id)
       THEN /\ response' = Reply("members/get", 400, "Invalid ID format")
            /\ storeCalls' = 0
            /\ failed' = FALSE
       ELSE /\ storeCalls' = 1
            /\ failed' = fail
            /\ response' =
                 IF fail THEN Reply("members/get", 500, "Server error")
                 ELSE IF FindById(store, NewObjectId(id)) = <<>>
                 THEN Reply("members/get", 404, "Not found")
                 ELSE [Reply("members/get", 200, "") EXCEPT
                         !.member = FindById(store, NewObjectId(id))]

(***************************************************************************)
(* POST /check-whitelist and GET /members/by-email/:email.                 *)
(***************************************************************************)
EmailInputs == {Missing, Str(<<>>), Str(<<"b">>), Str(<<"k">>)}

CheckWhitelist ==
  \E email \in EmailInputs, fail \in BOOLEAN :
    /\ request' = [Req("check-whitelist") EXCEPT !.email = email]
    /\ UNCHANGED <<store, now, stats, tieOrder>>
    /\ IF ~Truthy(email)
       THEN /\ response' = Reply("check-whitelist", 400, "Email is required")
            /\ storeCalls' = 0
            /\ failed' = FALSE
       ELSE /\ storeCalls' = 1
            /\ failed' = fail
            /\ response' =
                 IF fail THEN Reply("check-whitelist", 500, "Internal server error")
                 ELSE IF FindByEmail(store, email) # <<>>
                 THEN [Reply("check-whitelist", 200, "Email is whitelisted") EXCEPT
                         !.isWhitelisted = TRUE]
                 ELSE Reply("check-whitelist", 200,
                            "Email not found in authorized members list")

\* a path parameter is never empty
ByEmail ==
  \E email \in EmailInputs \ {Missing, Str(<<>>)}, fail \in BOOLEAN :
    /\ request' = [Req("members/by-email") EXCEPT !.email = email]
    /\ UNCHANGED <<store, now, stats, tieOrder>>
    /\ storeCalls' = 1
    /\ failed' = fail
    /\ response' =
         IF fail THEN Reply("members/by-email", 500, "Internal server error")
         ELSE IF FindByEmail(store, email) = <<>>
         THEN Reply("members/by-email", 404, "Member not found")
         ELSE [Reply("members/by-email", 200, "") EXCEPT
                 !.member = FindByEmail(store, email)]

(***************************************************************************)
(* GET /health and POST /send-email: no access to the store.               *)
(***************************************************************************)
Health ==
  /\ request' = Req("health")
  /\ response' = Reply("health", 200, "OK")
  /\ storeCalls' = 0
  /\ failed' = FALSE
  /\ UNCHANGED <<store, now, stats, tieOrder>>

SendEmail ==
  \E recipients \in {Missing, Str(<<"a">>)}, body \in {Str(<<"k">>)},
     sendFails \in BOOLEAN :
    /\ request' = [Req("send-email") EXCEPT !.recipients = recipients, !.value = body]
    /\ storeCalls' = 0
    /\ failed' = FALSE
    /\ UNCHANGED <<store, now, stats, tieOrder>>
    /\ response' =
         IF ~Truthy(recipients) \/ ~Truthy(body)
         THEN Reply("send-email", 400, "Recipients and body are required")
         ELSE IF sendFails
         THEN [Reply("send-email", 500, "Failed to send email") EXCEPT !.leak = TRUE]
         ELSE Reply("send-email", 200, "Emails sent successfully")

(***************************************************************************)
(* Full specification: every handler over a small store.                   *)
(***************************************************************************)
MainDoc(i) ==
  WithFields(SearchDoc(i, 0),
             [f \in {"Email", "Spouse email id"} |->
                IF f = "Email"
                THEN (IF i % 2 = 1 THEN Str(<<"a">>) ELSE Missing)
                ELSE (IF i % 2 = 0 THEN Str(<<"b">>) ELSE Null)])

Init ==
  /\ \E n \in 0..MaxDocs : store = [i \in 1..n |-> MainDoc(i)]
  /\ tieOrder = "asc"
  /\ InitIdle

MembersFew == MembersOn({Str(<<"K">>)}, {Missing}, {Missing, Str(<<"1">>)})

ByCategoryFew ==
  ByCategoryOn({"foo", "cityResidence"}, {Missing, Str(<<"k", "a">>)}, {Missing})

Next ==
  \/ CheckWhitelist
  \/ MembersFew
  \/ GetMember
  \/ Analytics
  \/ StatsNativeVillage
  \/ StatsCity
  \/ StatsKovil
  \/ StatsYear
  \/ PutMember
  \/ ByEmail
  \/ ByCategoryFew
  \/ Health
  \/ PutPhoto
  \/ SendEmail

Spec == Init /\ [][Next]_vars

(***************************************************************************)
(* Properties of the full specification.                                   *)
(***************************************************************************)
UpdateEndpoints == {"PUT members", "PUT members/photo"}

IdEndpoints == {"members/get"} \cup UpdateEndpoints

StoreEndpoints ==
  {"check-whitelist", "members", "members/get", "members/by-email",
   "members/by-category", "stats/native-village", "stats/city", "stats/kovil",
   "stats/year", "analytics"} \cup UpdateEndpoints

\* the last request carried invalid input
InvalidInput ==
  \/ request.ep \in IdEndpoints /\ ~request.id.hex
  \/ /\ request.ep = "members/by-category"
     /\ \/ request.category \notin {"nativeVillage", "cityResidence", "nagaraKovil", "yearMoved"}
        \/ request.value.t = "missing"
        \/ request.value = Str(<<>>)

\* C4: a request with a malformed identifier, a missing category or value,
\* or an unknown category is answered 400 and reaches no store operation.
C4_InvalidInputRejected ==
  InvalidInput => (response.status = 400 /\ storeCalls = 0)

GenericFailure ==
  /\ response.status = 500
  /\ ~response.leak
  /\ response.message \in {"Internal server error", "Server error", "Internal Server Error"}

\* C5: when a store operation of a request to a store endpoint fails, the
\* request is answered 500 with a generic message that does not carry the
\* cause.
C5_StoreFailureReported ==
  (failed /\ request.ep \in StoreEndpoints) => GenericFailure

IdSet(st) == {st[i]["_id"] : i \in Ids(st)}

\* the next request is an update addressed to a well-formed identifier that
\* no document of the store carries
UpdateOfAbsent ==
  /\ request'.ep \in UpdateEndpoints
  /\ request'.id.hex
  /\ \A i \in Ids(store) : store[i]["_id"].n # request'.id.n

\* C9 as stated: an update addressed to an identifier that matches no
\* document is answered 404 and leaves the store as it was (checked here
\* even for the requests during which no store operation fails).
C9_AbsentIs404 ==
  [][(UpdateOfAbsent /\ ~failed') => (response'.status = 404 /\ store' = store)]_vars

\* C9 amended: such an update leaves the store as it was in every case;
\* it is answered 404 when the store answers and, for a photo update, the
\* body carries a non-empty photo_link; a photo update without photo_link
\* is answered 400 before any store operation, and a failing store
\* operation gives 500.
C9_AbsentUpdate ==
  [][UpdateOfAbsent =>
       /\ store' = store
       /\ response'.status =
            IF /\ request'.ep = "PUT members/photo"
               /\ \/ "photo_link" \notin DOMAIN request'.body
                  \/ request'.body["photo_link"] = Str(<<>>)
            THEN 400
            ELSE IF failed' THEN 500 ELSE 404
       /\ response'.status = 400 => storeCalls' = 0]_vars

C9_Witness ==
  /\ request.ep = "PUT members/photo"
  /\ request.id.hex
  /\ "photo_link" \in DOMAIN request.body
  /\ store # <<>>
  /\ \A i \in Ids(store) : store[i]["_id"].n # request.id.n
  /\ response.status = 404
  /\ storeCalls = 1

ReadEndpoints ==
  {"check-whitelist", "members", "members/get", "members/by-email",
   "members/by-category", "stats/native-village", "stats/city", "stats/kovil",
   "stats/year", "analytics", "health", "send-email"}

\* C10: no step of the service creates or deletes a document or changes an
\* identifier, whatever the body carries, and a read endpoint leaves every
\* document as it was.
C10_IdentifiersFixed ==
  [][/\ Ids(store') = Ids(store)
     /\ IdSet(store') = IdSet(store)
     /\ \A i \in Ids(store) : store'[i]["_id"] = store[i]["_id"]
     /\ request'.ep \in ReadEndpoints => store' = store]_vars

C10_Witness ==
  /\ request.ep = "PUT members"
  /\ "_id" \in DOMAIN request.body
  /\ response.status = 200
  /\ response.member # <<>>
  /\ response.member[1]["_id"] = Oid(request.id.n)
  /\ response.member[1]["_id"] # request.body["_id"]
  /\ response.member[1]["YearSince"] = Null
  /\ response.member[1]["UserUpdated"].t = "date"

====
